---- MODULE Spec2Model ----
(***************************************************************************)
(* MessengerBot (src/src/messengerbot.js): the webhook pipeline that the   *)
(* constructor installs on its Express application, and postText.          *)
(*                                                                         *)
(* A request runs through the stack in the order of the _express.use       *)
(* calls: GET verification (68-75), body decoding (77-85), the dispatch    *)
(* route (87-102), the error middleware (104-109) and, when the stack is   *)
(* exhausted, the final handler of Express.  bodyParser.raw (66) is taken  *)
(* to have delivered req.body: its own failures (body over the size limit, *)
(* unsupported encoding) are outside the model.                            *)
(*                                                                         *)
(* JavaScript values are tagged records [t, v]; a JavaScript string is the *)
(* sequence of its characters.  A request body is a sequence of lexical    *)
(* units of its bytes, so that decoding is computed, not assumed.          *)
(***************************************************************************)
EXTENDS Integers, Sequences, FiniteSets, TLC

\* ------------------------------------------------------------------ bounds
MaxRequests == 1   \* inbound requests per behaviour of Spec
MaxEvents == 2     \* longest entry[0].messaging array among the inputs
MaxSends == 2      \* postText calls per behaviour of SendSpec

\* ------------------------------------------------------ JavaScript values
Undef == [t |-> "undef", v |-> 0]
JNull == [t |-> "null", v |-> 0]
JBool(b) == [t |-> "bool", v |-> b]
JNum(n) == [t |-> "num", v |-> n]
JStr(cs) == [t |-> "str", v |-> cs]
JArr(xs) == [t |-> "arr", v |-> xs]
JObj(f) == [t |-> "obj", v |-> f]
EmptyObj == JObj([k \in {} |-> Undef])

\* ToBoolean, as used by && and if
Truthy(x) ==
  CASE x.t = "undef" -> FALSE
    [] x.t = "null" -> FALSE
    [] x.t = "bool" -> x.v
    [] x.t = "num" -> x.v # 0
    [] x.t = "str" -> x.v # <<>>
    [] OTHER -> TRUE

\* a property read x.name or x[0] throws a TypeError on undefined and null
CanRead(x) == x.t \notin {"undef", "null"}

\* x.name for a name that is no built-in property (entry, messaging, ...)
Get(x, name) ==
  IF x.t = "obj" /\ name \in DOMAIN x.v THEN x.v[name] ELSE Undef

\* x[0]
IndexLast(x) ==
  CASE x.t = "arr" -> IF Len(x.v) > 0 THEN x.v[Len(x.v)] ELSE Undef
    [] x.t = "str" -> IF Len(x.v) > 0 THEN JStr(<<x.v[Len(x.v)]>>) ELSE Undef
    [] OTHER -> Undef
Index0(x) ==
  CASE x.t = "arr" -> IF Len(x.v) > 0 THEN x.v[1] ELSE Undef
    [] x.t = "str" -> IF Len(x.v) > 0 THEN JStr(<<x.v[1]>>) ELSE Undef
    [] x.t = "obj" -> Get(x, <<"0">>)
    [] OTHER -> Undef

\* for (let result of x): arrays and strings are iterable
Iterable(x) == x.t \in {"arr", "str"}
Items(x) ==
  IF x.t = "str" THEN [i \in 1..Len(x.v) |-> JStr(<<x.v[i]>>)] ELSE x.v

\* property names read by the pipeline
K_entry == <<"e", "n", "t", "r", "y">>
K_messaging == <<"m", "e", "s", "s", "a", "g", "i", "n", "g">>
K_message == <<"m", "e", "s", "s", "a", "g", "e">>
K_text == <<"t", "e", "x", "t">>
K_sender == <<"s", "e", "n", "d", "e", "r">>

\* ------------------------------------------------- request body, decoding
\* Lexical units of a body.  Raw bytes: punctuation, a quoted string of
\* valid UTF-8 ("str"), a quoted string holding an invalid byte ("strraw"),
\* a number, a literal, a bare word, an invalid byte outside any string.
Tok(k, s) == [k |-> k, s |-> s]
LBrace == Tok("{", <<>>)
RBrace == Tok("}", <<>>)
LBracket == Tok("[", <<>>)
RBracket == Tok("]", <<>>)
Colon == Tok(":", <<>>)
Comma == Tok(",", <<>>)
StrTok(cs) == Tok("str", cs)
StrRawTok == Tok("strraw", <<"0xFF">>)
NumTok(n) == Tok("num", n)
LitTok(w) == Tok("lit", w)
WordTok(w) == Tok("word", w)
ByteTok == Tok("byte", <<"0xFF">>)

\* Buffer.prototype.toString('utf8') never fails: an invalid byte becomes
\* U+FFFD.  A body that is no Buffer (bodyParser left req.body = {}) is
\* converted by Object.prototype.toString to "[object Object]".
ReplacementChar == "U+FFFD"
BodyToString(body) ==
  IF ~body.buffer
  THEN <<LBracket, WordTok("object"), WordTok("Object"), RBracket>>
  ELSE [i \in 1..Len(body.bytes) |->
          CASE body.bytes[i].k = "byte" -> Tok("char", <<ReplacementChar>>)
            [] body.bytes[i].k = "strraw" -> StrTok(<<ReplacementChar>>)
            [] OTHER -> body.bytes[i]]

\* JSON.parse: [ok, val, next]; ok = FALSE is a SyntaxError
ParseFail == [ok |-> FALSE, val |-> Undef, next |-> 0]
ParseOk(v, n) == [ok |-> TRUE, val |-> v, next |-> n]
Put(f, k, v) == [x \in DOMAIN f \cup {k} |-> IF x = k THEN v ELSE f[x]]

RECURSIVE ParseValue(_, _)
RECURSIVE ParseElements(_, _, _)
RECURSIVE ParseMembers(_, _, _)

ParseValue(toks, i) ==
  IF i > Len(toks) THEN ParseFail
  ELSE LET tk == toks[i] IN
    CASE tk.k = "str" -> ParseOk(JStr(tk.s), i + 1)
      [] tk.k = "num" -> ParseOk(JNum(tk.s), i + 1)
      [] tk.k = "lit" ->
           ParseOk(CASE tk.s = "null" -> JNull
                     [] tk.s = "true" -> JBool(TRUE)
                     [] OTHER -> JBool(FALSE), i + 1)
      [] tk.k = "[" ->
           IF i + 1 <= Len(toks) /\ toks[i + 1].k = "]"
           THEN ParseOk(JArr(<<>>), i + 2)
           ELSE ParseElements(toks, i + 1, <<>>)
      [] tk.k = "{" ->
           IF i + 1 <= Len(toks) /\ toks[i + 1].k = "}"
           THEN ParseOk(EmptyObj, i + 2)
           ELSE ParseMembers(toks, i + 1, [k \in {} |-> Undef])
      [] OTHER -> ParseFail

ParseElements(toks, i, acc) ==
  LET r == ParseValue(toks, i) IN
  IF ~r.ok \/ r.next > Len(toks) THEN ParseFail
  ELSE CASE toks[r.next].k = "," ->
              ParseElements(toks, r.next + 1, Append(acc, r.val))
         [] toks[r.next].k = "]" ->
              ParseOk(JArr(Append(acc, r.val)), r.next + 1)
         [] OTHER -> ParseFail

ParseMembers(toks, i, acc) ==
  IF i + 1 > Len(toks) \/ toks[i].k # "str" \/ toks[i + 1].k # ":"
  THEN ParseFail
  ELSE LET r == ParseValue(toks, i + 2) IN
    IF ~r.ok \/ r.next > Len(toks) THEN ParseFail
    ELSE CASE toks[r.next].k = "," ->
                ParseMembers(toks, r.next + 1, Put(acc, toks[i].s, r.val))
           [] toks[r.next].k = "}" ->
                ParseOk(JObj(Put(acc, toks[i].s, r.val)), r.next + 1)
           [] OTHER -> ParseFail

JsonParse(toks) ==
  LET r == ParseValue(toks, 1) IN
  IF r.ok /\ r.next = Len(toks) + 1 THEN r ELSE ParseFail

\* ------------------------------------------------------------------ inputs
\* Bodies are written as the lexical units of their JSON text.
RECURSIVE JoinComma(_)
JoinComma(parts) ==
  IF parts = <<>> THEN <<>>
  ELSE IF Len(parts) = 1 THEN parts[1]
  ELSE parts[1] \o <<Comma>> \o JoinComma(Tail(parts))

ArrT(elems) == <<LBracket>> \o JoinComma(elems) \o <<RBracket>>
Member(key, toks) == <<StrTok(key), Colon>> \o toks
ObjT(members) == <<LBrace>> \o JoinComma(members) \o <<RBrace>>

S_hi == <<"h", "i">>
S_u1 == <<"u", "1">>
S_u2 == <<"u", "2">>
K_id == <<"i", "d">>
K_attachments == <<"a", "t", "t">>
K_delivery == <<"d", "l", "v">>
K_note == <<"n", "o", "t", "e">>

SenderT(id) == Member(K_sender, ObjT(<<Member(K_id, <<StrTok(id)>>)>>))
\* {"sender":{"id":"u1"},"message":{"text":"hi"}}
EvText ==
  ObjT(<<SenderT(S_u1),
         Member(K_message, ObjT(<<Member(K_text, <<StrTok(S_hi)>>)>>))>>)
\* {"sender":{"id":"u2"},"message":{"text":""}}
EvEmptyText ==
  ObjT(<<SenderT(S_u2),
         Member(K_message, ObjT(<<Member(K_text, <<StrTok(<<>>)>>)>>))>>)
\* {"sender":{"id":"u1"},"message":{"att":[]}}
EvNoText ==
  ObjT(<<SenderT(S_u1),
         Member(K_message, ObjT(<<Member(K_attachments, ArrT(<<>>))>>))>>)
\* {"sender":{"id":"u2"},"dlv":{}}: a delivery receipt, no message at all
EvNoMessage ==
  ObjT(<<SenderT(S_u2), Member(K_delivery, ObjT(<<>>))>>)

EventKinds == {EvText, EvEmptyText, EvNoText, EvNoMessage}
EventLists == UNION {[1..n -> EventKinds] : n \in 0..MaxEvents}

EntryT(evs) == ObjT(<<Member(K_messaging, ArrT(evs))>>)
\* {"entry":[{"messaging":[...]}]}
Envelope(evs) == ObjT(<<Member(K_entry, ArrT(<<EntryT(evs)>>))>>)

NoBody == [buffer |-> FALSE, bytes |-> <<>>]
Buf(bytes) == [buffer |-> TRUE, bytes |-> bytes]

MalformedBodies ==
  { NoBody,                                        \* no body was sent
    Buf(<<WordTok("not-json")>>),                  \* not-json
    Buf(<<ByteTok>>),                              \* a lone invalid byte
    Buf(<<LBrace, StrTok(K_entry), Colon, LBracket>>),          \* {"entry":[
    Buf(<<LBracket, NumTok(1), Comma, RBracket>>) }             \* [1,]

ShapeBodies ==
  { Buf(<<LitTok("null")>>),                                    \* null
    Buf(ObjT(<<>>)),                                            \* {}
    Buf(ObjT(<<Member(K_entry, ArrT(<<>>))>>)),                 \* {"entry":[]}
    Buf(ObjT(<<Member(K_entry, ArrT(<<ObjT(<<>>)>>))>>)),       \* {"entry":[{}]}
    \* {"entry":[],"note":"<invalid byte>"}
    Buf(ObjT(<<Member(K_entry, ArrT(<<>>)), Member(K_note, <<StrRawTok>>)>>)),
    \* {"entry":[{"messaging":5}]}
    Buf(ObjT(<<Member(K_entry,
                 ArrT(<<ObjT(<<Member(K_messaging, <<NumTok(5)>>)>>)>>))>>)),
    \* {"entry":[{"messaging":[]},{"messaging":[e]}]}: events in entry[1] only
    Buf(ObjT(<<Member(K_entry,
                 ArrT(<<EntryT(<<>>), EntryT(<<EvText>>)>>))>>)),
    \* {"entry":[{"messaging":[e]},{"messaging":[e']}]}
    Buf(ObjT(<<Member(K_entry,
                 ArrT(<<EntryT(<<EvText>>), EntryT(<<EvNoMessage>>)>>))>>)) }

EnvelopeBodies == {Buf(Envelope(evs)) : evs \in EventLists}
Bodies == MalformedBodies \cup ShapeBodies \cup EnvelopeBodies

\* query strings: each parameter absent or present
P_token == "hub.verify_token"
P_challenge == "hub.challenge"
NoQuery == [k \in {} |-> ""]
Queries ==
  {NoQuery}
      \cup [{P_token} -> {"V1", "WRONG"}]
      \cup [{P_challenge} -> {"xyz123", "Error"}]
      \cup {[k \in {P_token, P_challenge} |-> IF k = P_token THEN t ELSE c] :
              t \in {"V1", "WRONG"}, c \in {"xyz123", "Error"}}

Request(m, q, b) == [method |-> m, query |-> q, body |-> b]
MatchingQuery == [k \in {P_token, P_challenge} |-> IF k = P_token THEN "V1" ELSE "xyz123"]
Inputs ==
  {Request("GET", q, NoBody) : q \in Queries}
  \cup {Request("POST", NoQuery, b) : b \in Bodies}
  \cup { Request("GET", MatchingQuery, Buf(Envelope(<<EvText>>))),
         Request("GET", NoQuery, Buf(<<WordTok("not-json")>>)),
         Request("PUT", MatchingQuery, Buf(Envelope(<<EvText>>))),
         Request("POST", MatchingQuery, Buf(<<WordTok("not-json")>>)) }

VerifyTokens == {"V1"}
AccessTokens == {"T1"}

\* ------------------------------------------------------------------- state
VARIABLES
  botConfig,      \* this.botConfig: {pageAccessToken, verifyToken}
  listening,      \* listen() has bound the Express application
  reqs,           \* the inbound requests, in order of arrival: req and res
  notifications,  \* every emit of the bot, in order: [req, name, payload]
  listeners,      \* the listeners registered with on(), counted per event name
  sends,          \* the postText calls: arguments and the returned promise
  outbound        \* the HTTP requests _fetcher has issued

vars == <<botConfig, listening, listeners, reqs, notifications, sends, outbound>>

\* the event names of the bot
EventNames == {"receive", "message", "error"}

\* constructor and _init: the configuration is stored; nothing has arrived
Init ==
  /\ botConfig \in [pageAccessToken : AccessTokens, verifyToken : VerifyTokens]
  /\ listening = FALSE
  /\ listeners = [n \in EventNames |-> 0]
  /\ reqs = <<>>
  /\ notifications = <<>>
  /\ sends = <<>>
  /\ outbound = <<>>

\* ---------------------------------------------------------------- response
\* res.send(value): status 200; undefined is sent as an empty body
QParam(q, name) ==
  IF name \in DOMAIN q THEN [defined |-> TRUE, s |-> q[name]]
  ELSE [defined |-> FALSE, s |-> ""]
ResSend(p) == [status |-> 200, body |-> IF p.defined THEN p.s ELSE ""]

\* res.sendStatus(code): the status with its reason phrase as body
ReasonPhrase(code) ==
  CASE code = 200 -> "OK"
    [] code = 400 -> "Bad Request"
    [] code = 404 -> "Not Found"
    [] OTHER -> "Internal Server Error"
SendStatus(code) == [status |-> code, body |-> ReasonPhrase(code)]

\* ---------------------------------------------------------- listen (137-139)
Listen ==
  /\ ~listening
  /\ listening' = TRUE
  /\ UNCHANGED <<botConfig, listeners, reqs, notifications, sends, outbound>>

\* A request reaches the stack; bodyParser.raw (66) has set req.body.
NewRequest(in) ==
  [method |-> in.method, query |-> in.query, body |-> in.body,
   pc |-> "verify", json |-> Undef, err |-> "none", res |-> <<>>,
   acked |-> 0]

Arrive(in) ==
  /\ listening
  /\ Len(reqs) < MaxRequests
  /\ reqs' = Append(reqs, NewRequest(in))
  /\ UNCHANGED <<botConfig, listening, listeners, notifications, sends, outbound>>

\* ------------------------------------------- GET verify middleware (68-75)
\* this.botConfig.verifyToken === req.query['hub.verify_token']
IsValidPresent(stored, p) == p.defined
IsValid(stored, p) == p.defined /\ p.s = stored

VerifyResponse(config, q) ==
  IF IsValid(config.verifyToken, QParam(q, P_token))
  THEN ResSend(QParam(q, P_challenge))
  ELSE ResSend([defined |-> TRUE, s |-> "Error"])

\* res.send of line 72 on the response of the request
VerifyRespondOnMatchOnly(res, config, q) ==
  IF IsValid(config.verifyToken, QParam(q, P_token))
  THEN Append(res, VerifyResponse(config, q))
  ELSE res
VerifyRespond(res, config, q) == Append(res, VerifyResponse(config, q))

\* line 71 compares this.botConfig.verifyToken; it does not assign it
ConfigAfterAssignment(config, q) ==
  [config EXCEPT !.verifyToken = QParam(q, P_token).s]
ConfigAfterCompare(config, q) == config

\* req.method === 'GET'
IsGetAnyMethod(method) == TRUE
IsGet(method) == method = "GET"

Verify(r) ==
  /\ r \in DOMAIN reqs
  /\ reqs[r].pc = "verify"
  /\ IF IsGet(reqs[r].method)
     THEN /\ reqs' = [reqs EXCEPT ![r].res = VerifyRespond(@, botConfig, reqs[r].query),
                                  ![r].pc = "done"]
          /\ botConfig' = ConfigAfterCompare(botConfig, reqs[r].query)
     ELSE /\ reqs' = [reqs EXCEPT ![r].pc = "decode"]
          /\ botConfig' = botConfig
  /\ UNCHANGED <<listening, listeners, notifications, sends, outbound>>

\* ----------------------------------------------- decode middleware (77-85)
\* toString, JSON.parse and the assignment of req.json; then(next) leads to
\* the route, catch(next) to the error middleware
Decode(r) ==
  /\ r \in DOMAIN reqs
  /\ reqs[r].pc = "decode"
  /\ LET p == JsonParse(BodyToString(reqs[r].body)) IN
       IF p.ok
       THEN reqs' = [reqs EXCEPT ![r].json = p.val, ![r].pc = "dispatch"]
       ELSE reqs' = [reqs EXCEPT ![r].err = "SyntaxError", ![r].pc = "error"]
  /\ UNCHANGED <<botConfig, listening, listeners, notifications, sends, outbound>>

\* --------------------------------------------------- dispatch route (87-102)
Emit(name, payload) == [name |-> name, payload |-> payload]

\* the 'message' payload of lines 92-96
MessagePayload(result) ==
  [sender |-> Get(result, K_sender),
   message |-> Get(Get(result, K_message), K_text),
   raw |-> result]

\* if (result.message.text) of line 91
TextGate(text) == Truthy(text)

\* the for loop of lines 90-98 from item i on: [emits, threw]
RECURSIVE Loop(_, _)
Loop(items, i) ==
  IF i > Len(items) THEN [emits |-> <<>>, threw |-> FALSE]
  ELSE LET result == items[i] IN
    IF ~CanRead(result) \/ ~CanRead(Get(result, K_message))
    THEN [emits |-> <<>>, threw |-> TRUE]
    ELSE LET rest == Loop(items, i + 1)
             here == IF TextGate(Get(Get(result, K_message), K_text))
                     THEN <<Emit("message", MessagePayload(result))>>
                     ELSE <<>>
         IN  [emits |-> here \o rest.emits, threw |-> rest.threw]

\* the batch emitted as 'receive' (line 89)
ReceivePayloadWithMessage(messaging) ==
  IF messaging.t = "arr"
  THEN JArr(SelectSeq(messaging.v, LAMBDA e : CanRead(Get(e, K_message))))
  ELSE messaging
ReceivePayload(messaging) == messaging

\* lines 88-99: the notifications emitted and whether a TypeError was thrown
Route(json) ==
  IF ~Truthy(json) THEN [emits |-> <<>>, threw |-> FALSE]
  ELSE IF ~CanRead(Get(json, K_entry)) THEN [emits |-> <<>>, threw |-> TRUE]
  ELSE LET entry0 == Index0(Get(json, K_entry)) IN
    IF ~Truthy(entry0) \/ ~Truthy(Get(entry0, K_messaging))
    THEN [emits |-> <<>>, threw |-> FALSE]
    ELSE LET messaging == Get(entry0, K_messaging)
             receive == <<Emit("receive", ReceivePayload(messaging))>>
         IN  IF ~Iterable(messaging)
             THEN [emits |-> receive, threw |-> TRUE]
             ELSE LET l == Loop(Items(messaging), 1)
                  IN  [emits |-> receive \o l.emits, threw |-> l.threw]

Tagged(r, emits) ==
  [i \in 1..Len(emits) |->
     [req |-> r, name |-> emits[i].name, payload |-> emits[i].payload]]

\* the status of line 100
AckStatus == 200

\* req.json of lines 81 and 88: a property of the request's own req object
ReqJsonOfLatest(r) == reqs[Len(reqs)].json
ReqJson(r) == reqs[r].json

\* emit is synchronous and the route never yields: the notifications of one
\* run of the route are emitted one after the other, after all earlier ones
PublishDeferringLast(log, notes) ==
  IF log = <<>> THEN notes
  ELSE SubSeq(log, 1, Len(log) - 1) \o notes \o <<log[Len(log)]>>
Publish(log, notes) == log \o notes

\* res.sendStatus(200) of line 100 runs after the block of lines 88-99: the
\* number of the request's notifications already emitted at that point
AckPointBeforeEmits(emits) == 0
AckPoint(emits) == Len(emits)

\* A throw is caught by Express and handed to the error middleware;
\* otherwise the response is sent and next() moves on.
Dispatch(r) ==
  /\ r \in DOMAIN reqs
  /\ reqs[r].pc = "dispatch"
  /\ LET out == Route(ReqJson(r)) IN
       /\ notifications' = Publish(notifications, Tagged(r, out.emits))
       /\ IF out.threw
          THEN reqs' = [reqs EXCEPT ![r].err = "TypeError", ![r].pc = "error"]
          ELSE reqs' = [reqs EXCEPT ![r].res = Append(@, SendStatus(AckStatus)),
                                    ![r].acked = AckPoint(out.emits),
                                    ![r].pc = "final"]
  /\ UNCHANGED <<botConfig, listening, listeners, sends, outbound>>

\* ------------------------------------------------ error middleware (104-109)
\* The handler is a function expression, not an arrow function, and Express
\* calls it as a plain function: its this is undefined, not the bot.
ErrorHandlerThis == "undefined"

ErrorMiddleware(r) ==
  /\ r \in DOMAIN reqs
  /\ reqs[r].pc = "error"
  /\ IF ErrorHandlerThis = "bot"
     THEN /\ notifications' =
               Append(notifications,
                      [req |-> r, name |-> "error", payload |-> reqs[r].err])
          /\ reqs' = [reqs EXCEPT ![r].res = Append(@, SendStatus(400)),
                                  ![r].err = "none", ![r].pc = "final"]
     ELSE \* this.emit throws a TypeError, which Express passes on
          /\ notifications' = notifications
          /\ reqs' = [reqs EXCEPT ![r].err = "TypeError", ![r].pc = "final"]
  /\ UNCHANGED <<botConfig, listening, listeners, sends, outbound>>

\* ------------------------- end of the stack: the final handler of Express
\* Reached by next() of lines 101 and 108 and by an error no middleware
\* handled.  Without an error it answers 404 unless a response was sent;
\* with one it answers 500 (the error carries no status) unless a response
\* was sent.
FinalResponse(err, res) ==
  IF res # <<>> THEN res
  ELSE IF err = "none" THEN <<SendStatus(404)>>
  ELSE <<SendStatus(500)>>

FinalHandler(r) ==
  /\ r \in DOMAIN reqs
  /\ reqs[r].pc = "final"
  /\ reqs' = [reqs EXCEPT ![r].res = FinalResponse(reqs[r].err, reqs[r].res),
                          ![r].pc = "done"]
  /\ UNCHANGED <<botConfig, listening, listeners, notifications, sends, outbound>>

\* -------------------------------------------------------- postText (120-130)
Users == {"u1", "u2"}
Messages == {"hello", ""}
SendErrors == {"ECONNRESET", "Request failed with status code 400"}

\* the body of lines 122-125
OutboundBody(user, message) ==
  [recipient |-> user, message |-> [text |-> message]]

\* _fetcher (56-61): POST me/messages with the access token as a parameter
PostText(user, message) ==
  /\ Len(sends) < MaxSends
  /\ outbound' = Append(outbound,
                        [call |-> Len(sends) + 1,
                         access_token |-> botConfig.pageAccessToken,
                         path |-> "me/messages",
                         data |-> OutboundBody(user, message)])
  /\ sends' = Append(sends,
                     [user |-> user, message |-> message,
                      platform |-> "pending",
                      promise |-> [state |-> "pending", value |-> ""]])
  /\ UNCHANGED <<botConfig, listening, listeners, reqs, notifications>>

\* the catch handler of lines 126-129: log, then reject with the same error
CatchHandlerSwallow(err) == [state |-> "resolved", value |-> ""]
CatchHandler(err) == [state |-> "rejected", value |-> err]

\* the platform call succeeds: the promise resolves with the response
SendSucceeds(i) ==
  /\ i \in DOMAIN sends
  /\ sends[i].platform = "pending"
  /\ sends' = [sends EXCEPT ![i].platform = "ok",
                            ![i].promise = [state |-> "resolved", value |-> "response"]]
  /\ UNCHANGED <<botConfig, listening, listeners, reqs, notifications, outbound>>

\* the platform call fails with err
SendFails(i, err) ==
  /\ i \in DOMAIN sends
  /\ sends[i].platform = "pending"
  /\ sends' = [sends EXCEPT ![i].platform = err,
                            ![i].promise = CatchHandler(err)]
  /\ UNCHANGED <<botConfig, listening, listeners, reqs, notifications, outbound>>

\* ------------------------------------------------------------ on (147-149)
\* super.on(name, listener): one more listener for the event name
MaxListeners == 1
On(name) ==
  /\ listeners[name] < MaxListeners
  /\ listeners' = [listeners EXCEPT ![name] = @ + 1]
  /\ UNCHANGED <<botConfig, listening, reqs, notifications, sends, outbound>>

\* ---------------------------------------------------------- specifications
Next ==
  \/ Listen
  \/ \E in \in Inputs : Arrive(in)
  \/ \E r \in 1..MaxRequests : Verify(r)
  \/ \E r \in 1..MaxRequests : Decode(r)
  \/ \E r \in 1..MaxRequests : Dispatch(r)
  \/ \E r \in 1..MaxRequests : ErrorMiddleware(r)
  \/ \E r \in 1..MaxRequests : FinalHandler(r)

Spec == Init /\ [][Next]_vars

SendNext ==
  \/ \E u \in Users, m \in Messages : PostText(u, m)
  \/ \E i \in 1..MaxSends : SendSucceeds(i)
  \/ \E i \in 1..MaxSends, e \in SendErrors : SendFails(i, e)

SendSpec == Init /\ [][SendNext]_vars

\* Several requests in flight at once: every handler step of one request may
\* be followed by a step of another.  The inputs are a few requests, one of
\* each course through the stack.
MaxConcurrent == 2
ConcurrentInputs ==
  { Request("GET", MatchingQuery, NoBody),
    Request("POST", NoQuery, Buf(<<WordTok("not-json")>>)),
    Request("POST", NoQuery, Buf(ObjT(<<>>))),
    Request("POST", NoQuery, Buf(Envelope(<<EvText, EvText>>))),
    Request("POST", NoQuery, Buf(Envelope(<<EvText, EvNoMessage>>))) }

ArriveConcurrent(in) ==
  /\ listening
  /\ Len(reqs) < MaxConcurrent
  /\ reqs' = Append(reqs, NewRequest(in))
  /\ UNCHANGED <<botConfig, listening, listeners, notifications, sends, outbound>>

ConcNext ==
  \/ Listen
  \/ \E in \in ConcurrentInputs : ArriveConcurrent(in)
  \/ \E r \in 1..MaxConcurrent : Verify(r)
  \/ \E r \in 1..MaxConcurrent : Decode(r)
  \/ \E r \in 1..MaxConcurrent : Dispatch(r)
  \/ \E r \in 1..MaxConcurrent : ErrorMiddleware(r)
  \/ \E r \in 1..MaxConcurrent : FinalHandler(r)

ConcSpec == Init /\ [][ConcNext]_vars

\* The whole interface of the bot: listen, on, postText and the handling of
\* requests, with one input of each kind.
LifeInputs ==
  { Request("GET", MatchingQuery, NoBody),
    Request("GET", [k \in {P_token} |-> "WRONG"], NoBody),
    Request("POST", NoQuery, Buf(<<WordTok("not-json")>>)),
    Request("POST", NoQuery, Buf(Envelope(<<EvText>>))) }

ArriveInLife(in) ==
  /\ listening
  /\ Len(reqs) < MaxRequests
  /\ reqs' = Append(reqs, NewRequest(in))
  /\ UNCHANGED <<botConfig, listening, listeners, notifications, sends, outbound>>

LifeNext ==
  \/ Listen
  \/ \E name \in EventNames : On(name)
  \/ \E in \in LifeInputs : ArriveInLife(in)
  \/ \E r \in 1..MaxRequests : Verify(r)
  \/ \E r \in 1..MaxRequests : Decode(r)
  \/ \E r \in 1..MaxRequests : Dispatch(r)
  \/ \E r \in 1..MaxRequests : ErrorMiddleware(r)
  \/ \E r \in 1..MaxRequests : FinalHandler(r)
  \/ PostText("u1", "hello")
  \/ \E i \in 1..MaxSends : SendSucceeds(i)
  \/ \E i \in 1..MaxSends : SendFails(i, "ECONNRESET")

LifeSpec == Init /\ [][LifeNext]_vars

\* ------------------------------------------------- vocabulary of the claims
Finished(r) == reqs[r].pc = "done"
NonGet(r) == reqs[r].method # "GET"
\* JSON.parse never yields undefined: req.json is set iff decoding succeeded
Decoded(r) == reqs[r].json # Undef
DecodeFailed(r) == NonGet(r) /\ Finished(r) /\ ~Decoded(r)
Statuses(r) == [i \in 1..Len(reqs[r].res) |-> reqs[r].res[i].status]

NotesOf(r) == SelectSeq(notifications, LAMBDA n : n.req = r)
Named(r, name) == SelectSeq(NotesOf(r), LAMBDA n : n.name = name)
Payloads(ns) == [i \in 1..Len(ns) |-> ns[i].payload]

\* entry[0].messaging of a decoded payload, where it is a sequence
HasField(x, name) == x.t = "obj" /\ name \in DOMAIN x.v
HasEntry0(j) ==
  /\ HasField(j, K_entry)
  /\ j.v[K_entry].t = "arr"
  /\ Len(j.v[K_entry].v) >= 1
HasMessaging(j) ==
  /\ HasEntry0(j)
  /\ HasField(j.v[K_entry].v[1], K_messaging)
  /\ j.v[K_entry].v[1].v[K_messaging].t = "arr"
MessagingOf(j) == j.v[K_entry].v[1].v[K_messaging]
EventsOf(j) == IF HasMessaging(j) THEN MessagingOf(j).v ELSE <<>>

\* message.text is present in an event
TextPresent(ev) ==
  /\ HasField(ev, K_message)
  /\ HasField(ev.v[K_message], K_text)
Promoted(ev) ==
  [sender |-> IF HasField(ev, K_sender) THEN ev.v[K_sender] ELSE Undef,
   message |-> ev.v[K_message].v[K_text],
   raw |-> ev]
RECURSIVE ExpectedMessages(_)
ExpectedMessages(evs) ==
  IF evs = <<>> THEN <<>>
  ELSE (IF TextPresent(Head(evs)) THEN <<Promoted(Head(evs))>> ELSE <<>>)
       \o ExpectedMessages(Tail(evs))

\* ----------------------------------------------------------------- claims
\* C1: for every inbound request, once the pipeline has finished with it
\* exactly one HTTP response has been sent, and at no time more than one.
C1_ExactlyOneResponse ==
  \A r \in DOMAIN reqs :
    /\ Len(reqs[r].res) <= 1
    /\ Finished(r) => Len(reqs[r].res) = 1

\* a request whose handling failed with an error has been answered once
C1_Witness ==
  \E r \in DOMAIN reqs :
    /\ Finished(r)
    /\ NonGet(r)
    /\ reqs[r].err # "none"
    /\ Len(reqs[r].res) = 1

\* C2: a non-GET request whose body fails decoding is answered 400 and
\* exactly one "error" notification, carrying the decode failure, is emitted.
C2_DecodeFailureIs400WithError ==
  \A r \in DOMAIN reqs :
    DecodeFailed(r) =>
      /\ Statuses(r) = <<400>>
      /\ Payloads(Named(r, "error")) = <<"SyntaxError">>

\* C3: a non-GET request whose body is valid JSON is answered 200 whatever
\* the shape of the decoded value.
C3_ValidJsonIs200 ==
  \A r \in DOMAIN reqs :
    NonGet(r) /\ Finished(r) /\ Decoded(r) => Statuses(r) = <<200>>

\* C4: a GET request is answered 200; the body is hub.challenge when
\* hub.verify_token is exactly the stored verification token, and the fixed
\* error string otherwise (so, unless the challenge is itself that string,
\* the body is the challenge only if the token matches).
C4_VerifyHandshake ==
  \A r \in DOMAIN reqs :
    reqs[r].method = "GET" /\ Finished(r) =>
      LET q == reqs[r].query
          match == P_token \in DOMAIN q /\ q[P_token] = botConfig.verifyToken
      IN  /\ Statuses(r) = <<200>>
          /\ match /\ P_challenge \in DOMAIN q =>
               reqs[r].res[1].body = q[P_challenge]
          /\ ~match => reqs[r].res[1].body = "Error"
          /\ /\ P_challenge \in DOMAIN q
             /\ reqs[r].res[1].body = q[P_challenge]
             /\ q[P_challenge] # "Error"
             => match

C4_Witness ==
  \E r \in DOMAIN reqs :
    /\ reqs[r].method = "GET" /\ Finished(r)
    /\ P_token \in DOMAIN reqs[r].query
    /\ reqs[r].query[P_token] = botConfig.verifyToken
    /\ P_challenge \in DOMAIN reqs[r].query
    /\ reqs[r].res[1].body = "xyz123"

\* C5: when the decoded payload has a non-empty entry[0].messaging, "receive"
\* is emitted exactly once for the request, carries entry[0].messaging
\* unmodified and in order, and precedes every "message" of the request.
C5_ReceiveOnceFirstUnmodified ==
  \A r \in DOMAIN reqs :
    Finished(r) /\ Decoded(r) /\ EventsOf(reqs[r].json) # <<>> =>
      /\ Payloads(Named(r, "receive")) = <<MessagingOf(reqs[r].json)>>
      /\ NotesOf(r)[1].name = "receive"
      /\ \A i \in 2..Len(NotesOf(r)) : NotesOf(r)[i].name = "message"

\* two events, both promoted, after the one batch
C5_Witness ==
  \E r \in DOMAIN reqs :
    /\ Finished(r) /\ Decoded(r)
    /\ Len(EventsOf(reqs[r].json)) = 2
    /\ Len(Named(r, "receive")) = 1
    /\ Len(Named(r, "message")) = 2

\* C6: the "message" notifications of a request are exactly the events of
\* entry[0].messaging whose message.text is present, in order, each with
\* payload {sender, message: text, raw: event}.
C6_MessagesAreTextEvents ==
  \A r \in DOMAIN reqs :
    Finished(r) =>
      Payloads(Named(r, "message")) = ExpectedMessages(EventsOf(reqs[r].json))

\* C7: a non-GET request whose decoded payload has an empty or absent entry,
\* an absent entry[0] or an absent entry[0].messaging emits no notification
\* and is answered 200.
C7_NoEventsIsSilent200 ==
  \A r \in DOMAIN reqs :
    /\ NonGet(r) /\ Finished(r) /\ Decoded(r)
    /\ \/ ~HasField(reqs[r].json, K_entry)
       \/ reqs[r].json.v[K_entry] = JArr(<<>>)
       \/ /\ HasEntry0(reqs[r].json)
          /\ ~HasField(reqs[r].json.v[K_entry].v[1], K_messaging)
    => NotesOf(r) = <<>> /\ Statuses(r) = <<200>>

\* C8: every response has status 200 or 400; none is a 5xx.
C8_StatusIs200Or400 ==
  \A r \in DOMAIN reqs :
    \A i \in 1..Len(reqs[r].res) : reqs[r].res[i].status \in {200, 400}

\* C9: every postText({user, message}) has issued exactly one outbound
\* request, with body {recipient: user, message: {text: message}}; its
\* promise is pending while the platform call is, resolves when the call
\* succeeds and is rejected with the call's error when it fails.
C9_PostTextSingleShot ==
  /\ Len(outbound) = Len(sends)
  /\ \A i \in DOMAIN sends :
       /\ outbound[i].call = i
       /\ outbound[i].data =
            [recipient |-> sends[i].user, message |-> [text |-> sends[i].message]]
       /\ sends[i].platform = "pending" => sends[i].promise.state = "pending"
       /\ sends[i].platform = "ok" => sends[i].promise.state = "resolved"
       /\ sends[i].platform \in SendErrors =>
            sends[i].promise = [state |-> "rejected", value |-> sends[i].platform]

C9_Witness ==
  \E i \in DOMAIN sends, j \in DOMAIN sends :
    /\ sends[i].platform \in SendErrors
    /\ sends[i].promise.state = "rejected"
    /\ sends[j].platform = "ok"

\* C10: a GET request is handled by the verifier alone: it never is at the
\* decode, dispatch or error stage, emits nothing, and the step that answers
\* it changes nothing but its own response; a non-GET request leaves the
\* verifier unanswered, for the decode stage.
C10_GetStopsAtVerifier ==
  /\ [](\A r \in DOMAIN reqs :
          reqs[r].method = "GET" =>
            /\ reqs[r].pc \in {"verify", "done"}
            /\ ~Decoded(r) /\ reqs[r].err = "none"
            /\ NotesOf(r) = <<>>)
  /\ [][\A r \in DOMAIN reqs :
          reqs[r].pc = "verify" /\ reqs'[r].pc # "verify" =>
            IF reqs[r].method = "GET"
            THEN /\ reqs'[r].pc = "done"
                 /\ UNCHANGED <<botConfig, listening, listeners, notifications, sends, outbound>>
            ELSE /\ reqs'[r].pc = "decode"
                 /\ reqs'[r].res = <<>>]_vars

\* a GET carrying a well-formed event batch and the right token is done
C10_Witness ==
  \E r \in DOMAIN reqs :
    /\ reqs[r].method = "GET" /\ Finished(r)
    /\ reqs[r].body = Buf(Envelope(<<EvText>>))
    /\ notifications = <<>>

\* C11: an event whose message.text is the empty string is emitted as a
\* "message" notification, with message equal to the empty string.
C11_EmptyTextIsPromoted ==
  \A r \in DOMAIN reqs :
    Finished(r) /\ Decoded(r) =>
      \A i \in 1..Len(EventsOf(reqs[r].json)) :
        LET ev == EventsOf(reqs[r].json)[i] IN
          TextPresent(ev) /\ ev.v[K_message].v[K_text] = JStr(<<>>) =>
            \E k \in 1..Len(Named(r, "message")) :
              /\ Named(r, "message")[k].payload.raw = ev
              /\ Named(r, "message")[k].payload.message = JStr(<<>>)

\* C12: when the decode stage fails, no "receive", no "message" and no 200
\* response is produced for the request; the "error" notification and the
\* 400 response are.
C12_DecodeFailureBypassesDispatch ==
  \A r \in DOMAIN reqs :
    DecodeFailed(r) =>
      /\ Named(r, "receive") = <<>>
      /\ Named(r, "message") = <<>>
      /\ \A i \in 1..Len(reqs[r].res) : reqs[r].res[i].status # 200
      /\ Len(Named(r, "error")) = 1
      /\ \E i \in 1..Len(reqs[r].res) : reqs[r].res[i].status = 400

\* C13: "receive" is emitted only when the extracted sequence is non-empty;
\* a request whose entry[0].messaging is present but empty emits no
\* notification and is answered 200.
C13_NoReceiveForEmptyBatch ==
  \A r \in DOMAIN reqs :
    Finished(r) /\ Decoded(r) =>
      /\ Named(r, "receive") # <<>> => EventsOf(reqs[r].json) # <<>>
      /\ HasMessaging(reqs[r].json) /\ EventsOf(reqs[r].json) = <<>> =>
           NotesOf(r) = <<>> /\ Statuses(r) = <<200>>

\* C14: only entry[0].messaging is read.  For a payload with further
\* entries, every "receive" carries entry[0].messaging, every "message" is
\* raised for an event of entry[0].messaging, and notifications and status
\* are those of the same payload without the further entries.
HasLaterEntries(j) == HasEntry0(j) /\ Len(j.v[K_entry].v) >= 2
FirstEntryOnly(j) ==
  JObj([j.v EXCEPT ![K_entry] = JArr(<<j.v[K_entry].v[1]>>)])
Untagged(ns) ==
  [i \in 1..Len(ns) |-> [name |-> ns[i].name, payload |-> ns[i].payload]]

C14_OnlyFirstEntryRead ==
  \A r \in DOMAIN reqs :
    Finished(r) /\ Decoded(r) /\ HasLaterEntries(reqs[r].json) =>
      LET j == reqs[r].json
          alone == Route(FirstEntryOnly(j))
      IN  /\ \A i \in 1..Len(Named(r, "receive")) :
               Named(r, "receive")[i].payload = Get(j.v[K_entry].v[1], K_messaging)
          /\ \A i \in 1..Len(Named(r, "message")) :
               \E k \in 1..Len(EventsOf(j)) :
                 Named(r, "message")[i].payload.raw = EventsOf(j)[k]
          /\ Untagged(NotesOf(r)) = alone.emits
          /\ (Statuses(r) = <<200>>) <=> ~alone.threw

\* entry[0] carries no event, entry[1] carries one: nothing is promoted
C14_Witness ==
  \E r \in DOMAIN reqs :
    /\ Finished(r) /\ Decoded(r) /\ HasLaterEntries(reqs[r].json)
    /\ EventsOf(reqs[r].json) = <<>>
    /\ EventsOf(JObj([reqs[r].json.v EXCEPT
                        ![K_entry] = JArr(Tail(reqs[r].json.v[K_entry].v))])) # <<>>
    /\ Named(r, "message") = <<>>
    /\ Statuses(r) = <<200>>

\* C15: under every interleaving of the requests in flight, the responses
\* and the notifications of each request are those of the same request
\* handled alone, i.e. of its stages run one after the other.
AloneFailure(err, emits) ==
  IF ErrorHandlerThis = "bot"
  THEN [notes |-> emits \o <<Emit("error", err)>>, res |-> <<SendStatus(400)>>]
  ELSE [notes |-> emits, res |-> FinalResponse("TypeError", <<>>)]
Alone(in, config) ==
  IF in.method = "GET"
  THEN [notes |-> <<>>, res |-> <<VerifyResponse(config, in.query)>>]
  ELSE LET p == JsonParse(BodyToString(in.body)) IN
    IF ~p.ok THEN AloneFailure("SyntaxError", <<>>)
    ELSE IF Route(p.val).threw THEN AloneFailure("TypeError", Route(p.val).emits)
    ELSE [notes |-> Route(p.val).emits, res |-> <<SendStatus(AckStatus)>>]
InputOf(r) ==
  [method |-> reqs[r].method, query |-> reqs[r].query, body |-> reqs[r].body]

C15_RequestsDoNotInterfere ==
  \A r \in DOMAIN reqs :
    Finished(r) =>
      /\ reqs[r].res = Alone(InputOf(r), botConfig).res
      /\ Untagged(NotesOf(r)) = Alone(InputOf(r), botConfig).notes

\* two requests were in flight together; one failed to decode, the other
\* emitted its burst and was answered 200
C15_Witness ==
  \E r1 \in DOMAIN reqs, r2 \in DOMAIN reqs :
    /\ r1 # r2
    /\ DecodeFailed(r1)
    /\ Finished(r2) /\ Len(NotesOf(r2)) = 3 /\ Statuses(r2) = <<200>>

\* C16: the credentials of botConfig keep the values given to the
\* constructor: no step of request handling, postText, listen or on changes
\* them.
C16_CredentialsNeverChange ==
  /\ botConfig \in [pageAccessToken : AccessTokens, verifyToken : VerifyTokens]
  /\ [][botConfig' = botConfig]_vars

\* a GET with a wrong token was answered, a listener is registered and a
\* postText has failed
C16_Witness ==
  /\ \E r \in DOMAIN reqs :
       /\ reqs[r].method = "GET" /\ Finished(r)
       /\ reqs[r].res[1].body = "Error"
  /\ listeners["message"] > 0
  /\ \E i \in DOMAIN sends : sends[i].promise.state = "rejected"

\* C17: the notifications of one request are contiguous in the order of
\* emission: none of another request lies between two of the same request.
C17_BurstIsContiguous ==
  \A i \in 1..Len(notifications), k \in 1..Len(notifications) :
    i < k /\ notifications[i].req = notifications[k].req =>
      \A m \in i..k : notifications[m].req = notifications[i].req

\* two requests, neither finished, have each emitted a burst
C17_Witness ==
  /\ \A r \in DOMAIN reqs : ~Finished(r)
  /\ \E r1 \in DOMAIN reqs, r2 \in DOMAIN reqs :
       r1 # r2 /\ Len(NotesOf(r1)) >= 2 /\ Len(NotesOf(r2)) >= 2

\* C18: for a decoded request the 200 response is sent after its "receive"
\* and all its "message" notifications: all of them had been emitted when
\* it was sent, and none is emitted once the request has a response.
C18_AckAfterNotifications ==
  /\ [](\A r \in DOMAIN reqs :
          Decoded(r) /\ reqs[r].res # <<>> /\ reqs[r].res[1].status = 200 =>
            reqs[r].acked = Len(NotesOf(r)))
  /\ [][\A r \in DOMAIN reqs :
          reqs[r].res # <<>> => NotesOf(r)' = NotesOf(r)]_vars

C18_Witness ==
  \E r \in DOMAIN reqs :
    /\ Decoded(r)
    /\ Statuses(r) = <<200>>
    /\ Len(NotesOf(r)) = 3
    /\ reqs[r].acked = 3

====
